---- MODULE Spec2Model ----
(***************************************************************************)
(* Product catalogue ("reference" chaincode) and ownership-transfer        *)
(* negotiation ("relationship" chaincode) of fabric-supply-chain.          *)
(*                                                                         *)
(* Two revisions of the catalogue are modelled:                            *)
(*   SimpleChaincode  - chaincode/go/reference/chaincode_example02.go,     *)
(*                      products stored under the plain key productName;   *)
(*   ProductChaincode - unnamed/part_001, products stored under the        *)
(*                      composite key (product, productName).              *)
(* The negotiation is OwnershipChaincode of unnamed/part_002 (second       *)
(* revision in that file), which verifies ownership by invoking            *)
(* readProduct of the catalogue.                                           *)
(*                                                                         *)
(* One chaincode invocation is one ledger transaction: its write set is    *)
(* committed when the response is a success and dropped otherwise, so an   *)
(* action is the complete handler.                                         *)
(***************************************************************************)
EXTENDS Integers, Sequences, FiniteSets, TLC

\* ------------------------------------------------------------------ bounds
MaxOps == 4
MaxPending == 2

\* ------------------------------------------------------------ input universe
Names == {"Book", "Pen"}
Descs == {"Go Tutorial", "Ink"}
Orgs == {"a", "b", "OrgC"}
Msgs == {"please transfer", "msg"}
NoCaller == "-"
NoPayload == [none |-> TRUE]

\* ------------------------------------------------------- program constants
stateUnknown == 0
stateRegistered == 1
stateActive == 2
stateDecisionMaking == 3
stateInactive == 4

ArgStates == stateUnknown..(stateInactive + 1)

productIndex == "product"
statusInitiated == "Initiated"
statusAccepted == "Accepted"
statusRejected == "Rejected"
statusCancelled == "Cancelled"
transferIndex == "TransferDetails"

productStateMachine ==
    [s \in {stateRegistered, stateActive, stateDecisionMaking, stateInactive} |->
        CASE s = stateRegistered -> <<stateRegistered, stateActive>>
          [] s = stateActive -> <<stateActive, stateDecisionMaking>>
          [] s = stateDecisionMaking -> <<stateActive, stateDecisionMaking, stateInactive>>
          [] s = stateInactive -> <<stateInactive>>]

\* every value taken for a key of the map
mapKeyAny(m, value) == TRUE

mapKey(m, value) == value \in DOMAIN m

checkNewStateAnyKnown(states, stateOld, stateNew) == stateOld \in DOMAIN states

checkNewState(states, stateOld, stateNew) ==
    /\ stateOld \in DOMAIN states
    /\ \E i \in 1..Len(states[stateOld]) : states[stateOld][i] = stateNew

\* strings.ToLower on the organisation identifiers of the universe
ToLower(s) == IF s = "OrgC" THEN "orgc" ELSE s

\* ---------------------------------------------------------------- the state
VARIABLES
    cc,          \* catalogue revision deployed as "reference"
    plainKV,     \* catalogue world state, plain keys: productName -> value
    productKV,   \* catalogue world state, composite keys (product, name) -> value
    stateIdx,    \* catalogue world state, composite keys (state~name, state, name)
    transferKV,  \* negotiation world state, (TransferDetails, P, S, R) -> value
    keyHistory,  \* negotiation ledger: per key, the values committed to it, in order
    events,      \* chaincode events of committed transactions, in order
    pending,     \* endorsed transactions that are not committed yet
    call,        \* the last invocation: function, arguments, caller organisation
    resp,        \* its response
    nOps,        \* number of invocations so far
    catalogHistory, \* catalogue ledger: per key, the writes committed to it, in order
    lastRead     \* history variable: the last readProduct since the last committed
                 \* catalogue write, and whether it repeated the one before

vars == <<nOps, cc, plainKV, productKV, stateIdx, catalogHistory, transferKV, keyHistory,
          events, pending, lastRead, resp, call>>
catalogVars == <<plainKV, productKV, stateIdx, catalogHistory>>
negotiationVars == <<transferKV, keyHistory, events>>
ledgerVars == <<plainKV, productKV, stateIdx, catalogHistory, transferKV, keyHistory, events>>

\* ------------------------------------------------------------ ledger, shim
GetState(kv, key) == IF key \in DOMAIN kv THEN <<kv[key]>> ELSE <<>>

PutState(kv, key, value) ==
    [k \in DOMAIN kv \cup {key} |-> IF k = key THEN value ELSE kv[k]]

DelState(kv, key) == [k \in DOMAIN kv \ {key} |-> kv[k]]

\* the ledger's record of a committed write or delete of a key; the transaction
\* id and the timestamp of the record are left out
Committed(hist, key, value, isDelete) ==
    [k \in DOMAIN hist \cup {key} |->
        (IF k \in DOMAIN hist THEN hist[k] ELSE <<>>)
            \o (IF k = key THEN <<[value |-> value, isDelete |-> isDelete]>> ELSE <<>>)]

GetHistoryForKey(hist, key) == IF key \in DOMAIN hist THEN hist[key] ELSE <<>>

\* the ledger key of a plain key and of a composite key of one attribute
PlainKey(name) == <<name>>
CreateCompositeKey(objectType, name) == <<objectType, name>>

NoRead == [none |-> TRUE]

\* a committed catalogue write
Wrote(key, value, isDelete) ==
    /\ catalogHistory' = Committed(catalogHistory, key, value, isDelete)
    /\ lastRead' = NoRead

\* the answer of a readProduct
Read(r) ==
    /\ resp' = r
    /\ lastRead' = [args |-> call'.args, resp |-> r,
                    repeated |-> lastRead # NoRead /\ lastRead.args = call'.args]
    /\ UNCHANGED ledgerVars

Success(payload) == [status |-> 200, message |-> "", payload |-> payload]

\* the failure of a handler answered as a bad request
ErrorAsBadRequest(msg) == [status |-> 400, message |-> msg, payload |-> NoPayload]

Error(msg) == [status |-> 500, message |-> msg, payload |-> NoPayload]

Response(status, msg) == [status |-> status, message |-> msg, payload |-> NoPayload]

\* one proposal: simulated by the handler
Propose(fn, args, caller) ==
    /\ nOps < MaxOps
    /\ nOps' = nOps + 1
    /\ call' = [fn |-> fn, args |-> args, caller |-> caller]
    /\ UNCHANGED cc

\* one invocation whose transaction is committed before the next one starts
Invoke(fn, args, caller) ==
    /\ Propose(fn, args, caller)
    /\ UNCHANGED pending

Fail(r) == resp' = r /\ UNCHANGED <<ledgerVars, lastRead>>

\* ============================================================ SimpleChaincode
\* chaincode/go/reference/chaincode_example02.go

SimpleProduct(name, desc, state, lastUpdated, owner) ==
    [docType |-> "product", name |-> name, desc |-> desc, state |-> state,
     lastUpdated |-> lastUpdated, owner |-> owner]

Simple_initProduct(productName, desc, state, ownerArg, lastUpdated) ==
    /\ cc = "SimpleChaincode"
    /\ Invoke("initProduct", <<productName, desc, state, ownerArg, lastUpdated>>, NoCaller)
    /\ LET owner == ToLower(ownerArg)
           legalState == mapKey(productStateMachine, state)
           product == SimpleProduct(productName, desc, state, lastUpdated, owner)
       IN  IF ~legalState
             THEN Fail(Error("Not legal product state"))
           ELSE IF GetState(plainKV, productName) # <<>>
             THEN Fail(Error("This product already exists"))
           ELSE /\ plainKV' = PutState(plainKV, productName, product)
                /\ Wrote(PlainKey(productName), product, FALSE)
                /\ stateIdx' = stateIdx \cup {<<product.state, product.name>>}
                /\ resp' = Success(NoPayload)
                /\ UNCHANGED <<productKV, negotiationVars>>

Simple_updateProduct(productName, newDesc, newState, ownerArg, lastUpdated) ==
    /\ cc = "SimpleChaincode"
    /\ Invoke("updateProduct", <<productName, newDesc, newState, ownerArg, lastUpdated>>, NoCaller)
    /\ LET newOwner == ToLower(ownerArg)
           productAsBytes == GetState(plainKV, productName)
       IN  IF productAsBytes = <<>>
             THEN Fail(Error("Product does not exist"))
           ELSE LET productRead == productAsBytes[1]
                    legalState == mapKey(productStateMachine, newState)
                    legalStateMachine ==
                        checkNewState(productStateMachine, productRead.state, newState)
                    productToUpdate ==
                        [productRead EXCEPT !.desc = newDesc, !.state = newState,
                                            !.owner = newOwner, !.lastUpdated = lastUpdated]
                IN  IF ~legalState \/ ~legalStateMachine
                      THEN Fail(Error("Not legal product state"))
                    ELSE /\ plainKV' = PutState(plainKV, productName, productToUpdate)
                         /\ Wrote(PlainKey(productName), productToUpdate, FALSE)
                         \* the index is maintained only when the record just
                         \* assigned differs from newState
                         /\ stateIdx' =
                              IF productToUpdate.state # newState
                                THEN (stateIdx \ {<<productToUpdate.state, productToUpdate.name>>})
                                         \cup {<<newState, productToUpdate.name>>}
                                ELSE stateIdx
                         /\ resp' = Success(NoPayload)
                         /\ UNCHANGED <<productKV, negotiationVars>>

Simple_readProductResponse(kv, name) ==
    LET valAsbytes == GetState(kv, name)
    IN  IF valAsbytes = <<>>
          THEN Error("Prodcut does not exist")
          ELSE Success(valAsbytes[1])

Simple_readProduct(name) ==
    /\ cc = "SimpleChaincode"
    /\ Invoke("readProduct", <<name>>, NoCaller)
    /\ Read(Simple_readProductResponse(plainKV, name))

Simple_delete(productName) ==
    /\ cc = "SimpleChaincode"
    /\ Invoke("delete", <<productName>>, NoCaller)
    /\ LET valAsbytes == GetState(plainKV, productName)
       IN  IF valAsbytes = <<>>
             THEN Fail(Error("Product does not exist"))
           ELSE LET productJSON == valAsbytes[1]
                IN  /\ plainKV' = DelState(plainKV, productName)
                    /\ Wrote(PlainKey(productName), productJSON, TRUE)
                    /\ stateIdx' = stateIdx \ {<<productJSON.state, productJSON.name>>}
                    /\ resp' = Success(NoPayload)
                    /\ UNCHANGED <<productKV, negotiationVars>>

\* the transfer refused for a product that is Inactive
Simple_transferProductStateChecked(productName, ownerArg) ==
    /\ cc = "SimpleChaincode"
    /\ Invoke("transferProduct", <<productName, ownerArg>>, NoCaller)
    /\ LET newOwner == ToLower(ownerArg)
           productAsBytes == GetState(plainKV, productName)
       IN  IF productAsBytes = <<>>
             THEN Fail(Error("Product does not exist"))
           ELSE IF productAsBytes[1].state = stateInactive
             THEN Fail(Error("Not legal product state"))
           ELSE LET productToTransfer == [productAsBytes[1] EXCEPT !.owner = newOwner]
                IN  /\ plainKV' = PutState(plainKV, productName, productToTransfer)
                    /\ Wrote(PlainKey(productName), productToTransfer, FALSE)
                    /\ resp' = Success(NoPayload)
                    /\ UNCHANGED <<productKV, stateIdx, negotiationVars>>

Simple_transferProduct(productName, ownerArg) ==
    /\ cc = "SimpleChaincode"
    /\ Invoke("transferProduct", <<productName, ownerArg>>, NoCaller)
    /\ LET newOwner == ToLower(ownerArg)
           productAsBytes == GetState(plainKV, productName)
       IN  IF productAsBytes = <<>>
             THEN Fail(Error("Product does not exist"))
           ELSE LET productToTransfer == [productAsBytes[1] EXCEPT !.owner = newOwner]
                IN  /\ plainKV' = PutState(plainKV, productName, productToTransfer)
                    /\ Wrote(PlainKey(productName), productToTransfer, FALSE)
                    /\ resp' = Success(NoPayload)
                    /\ UNCHANGED <<productKV, stateIdx, negotiationVars>>

\* the names the state~name index lists for a state
IndexedNames(idx, state) == {e[2] : e \in {x \in idx : x[1] = state}}

Simple_transferProductsBasedOnState(state, ownerArg) ==
    /\ cc = "SimpleChaincode"
    /\ Invoke("transferProductsBasedOnState", <<state, ownerArg>>, NoCaller)
    /\ LET newOwner == ToLower(ownerArg)
           found == IndexedNames(stateIdx, state)
           transferred(n) == [plainKV[n] EXCEPT !.owner = newOwner]
       IN  \* transferProduct fails for a name of the index that has no record
           IF \E n \in found : GetState(plainKV, n) = <<>>
             THEN Fail(Error("Transfer failed: Product does not exist"))
           ELSE /\ plainKV' = [n \in DOMAIN plainKV |->
                                  IF n \in found THEN transferred(n) ELSE plainKV[n]]
                /\ catalogHistory' =
                      [k \in DOMAIN catalogHistory |->
                          IF \E n \in found : k = PlainKey(n)
                            THEN Append(catalogHistory[k],
                                        [value |-> transferred(k[1]), isDelete |-> FALSE])
                            ELSE catalogHistory[k]]
                /\ lastRead' = IF found = {} THEN lastRead ELSE NoRead
                /\ resp' = Success([transferred |-> Cardinality(found), state |-> state,
                                    newOwner |-> newOwner])
                /\ UNCHANGED <<productKV, stateIdx, negotiationVars>>

Simple_updateOwner(productName, oldOwner, newOwner, lastUpdated) ==
    /\ cc = "SimpleChaincode"
    /\ Invoke("updateOwner", <<productName, oldOwner, newOwner, lastUpdated>>, NoCaller)
    /\ LET productAsBytes == GetState(plainKV, productName)
       IN  IF productAsBytes = <<>>
             THEN Fail(Error("Product does not exist"))
           ELSE IF productAsBytes[1].owner # oldOwner
             THEN Fail(Error("The specified product doesn't belong to the specified owner."))
           ELSE LET productToUpdate ==
                        [productAsBytes[1] EXCEPT !.owner = newOwner,
                                                  !.lastUpdated = lastUpdated]
                IN  /\ plainKV' = PutState(plainKV, productName, productToUpdate)
                    /\ Wrote(PlainKey(productName), productToUpdate, FALSE)
                    /\ resp' = Success(NoPayload)
                    /\ UNCHANGED <<productKV, stateIdx, negotiationVars>>

\* the JSON null written for the value of a delete
null == [none |-> TRUE]

Simple_getHistoryForProduct(productName) ==
    /\ cc = "SimpleChaincode"
    /\ Invoke("getHistoryForProduct", <<productName>>, NoCaller)
    /\ LET resultsIterator == GetHistoryForKey(catalogHistory, PlainKey(productName))
       IN  resp' = Success([i \in 1..Len(resultsIterator) |->
                              [Value |-> IF resultsIterator[i].isDelete THEN null
                                         ELSE resultsIterator[i].value,
                               IsDelete |-> resultsIterator[i].isDelete]])
    /\ UNCHANGED <<ledgerVars, lastRead>>

\* =========================================================== ProductChaincode
\* unnamed/part_001

ProductValue(desc, state, lastUpdated, owner) ==
    [docType |-> productIndex, desc |-> desc, state |-> state,
     lastUpdated |-> lastUpdated, owner |-> owner]

\* json.Unmarshal of a stored value into Product{Key, Value}: the members "key"
\* and "value" are taken when the document has them, the rest stays zero
UnmarshalProduct(doc) ==
    [Key |-> IF "key" \in DOMAIN doc THEN doc.key ELSE [name |-> ""],
     Value |-> IF "value" \in DOMAIN doc THEN doc.value
               ELSE ProductValue("", stateUnknown, 0, "")]

Product_initProduct(productName, desc, state, ownerArg, lastUpdated, fault) ==
    /\ cc = "ProductChaincode"
    /\ Invoke("initProduct", <<productName, desc, state, ownerArg, lastUpdated, fault>>,
              NoCaller)
    /\ LET owner == ToLower(ownerArg)
           legalState == mapKey(productStateMachine, state)
           value == ProductValue(desc, state, lastUpdated, owner)
       IN  IF ~legalState
             THEN Fail(Error("Not legal product state"))
           \* the existence check reads the plain key productName
           ELSE IF GetState(plainKV, productName) # <<>>
             THEN Fail(Error("This product already exists"))
           \* the record is saved under the composite key (product, productName)
           ELSE /\ productKV' = PutState(productKV, productName, value)
                /\ Wrote(CreateCompositeKey(productIndex, productName), value, FALSE)
                \* the error of the PutState of the index entry is not looked at
                /\ stateIdx' = IF fault = "index" THEN stateIdx
                               ELSE stateIdx \cup {<<value.state, productName>>}
                /\ resp' = Success(NoPayload)
                /\ UNCHANGED <<plainKV, negotiationVars>>

Product_updateProduct(productName, newDesc, newState, ownerArg, lastUpdated) ==
    /\ cc = "ProductChaincode"
    /\ Invoke("updateProduct", <<productName, newDesc, newState, ownerArg, lastUpdated>>, NoCaller)
    /\ LET newOwner == ToLower(ownerArg)
           productAsBytes == GetState(plainKV, productName)
       IN  IF productAsBytes = <<>>
             THEN Fail(Error("Product does not exist"))
           ELSE LET productRead == UnmarshalProduct(productAsBytes[1])
                    legalState == mapKey(productStateMachine, newState)
                    legalStateMachine ==
                        checkNewState(productStateMachine, productRead.Value.state, newState)
                    value == [productRead.Value EXCEPT !.desc = newDesc, !.state = newState,
                                                       !.owner = newOwner,
                                                       !.lastUpdated = lastUpdated]
                    keyName == productRead.Key.name
                IN  IF ~legalState \/ ~legalStateMachine
                      THEN Fail(Error("Not legal product state"))
                    ELSE /\ productKV' = PutState(productKV, keyName, value)
                         /\ Wrote(CreateCompositeKey(productIndex, keyName), value, FALSE)
                         /\ stateIdx' =
                              IF value.state # newState
                                THEN (stateIdx \ {<<value.state, keyName>>})
                                         \cup {<<newState, keyName>>}
                                ELSE stateIdx
                         /\ resp' = Success(NoPayload)
                         /\ UNCHANGED <<plainKV, negotiationVars>>

\* the product that is not stored answered with status 404
Product_readProductResponseNotFound(kv, name) ==
    LET stateAsBytes == GetState(kv, name)
    IN  IF stateAsBytes = <<>>
          THEN Response(404, "product doesn't exist")
          ELSE Success([key |-> [name |-> name], value |-> stateAsBytes[1]])

\* the answer stamped with the number of the invocation
Product_readProductResponseStamped(kv, name) ==
    LET stateAsBytes == GetState(kv, name)
    IN  IF stateAsBytes = <<>>
          THEN Error("product doesn't exist")
          ELSE Success([key |-> [name |-> name], value |-> stateAsBytes[1],
                        readAt |-> nOps])

Product_readProductResponse(kv, name) ==
    LET stateAsBytes == GetState(kv, name)
    IN  IF stateAsBytes = <<>>
          THEN Error("product doesn't exist")
          ELSE Success([key |-> [name |-> name], value |-> stateAsBytes[1]])

Product_readProduct(name) ==
    /\ cc = "ProductChaincode"
    /\ Invoke("readProduct", <<name>>, NoCaller)
    /\ Read(Product_readProductResponse(productKV, name))

\* the record and its index entry removed
Product_deleteRemoving(productName) ==
    /\ cc = "ProductChaincode"
    /\ Invoke("delete", <<productName>>, NoCaller)
    /\ LET valAsbytes == GetState(productKV, productName)
       IN  IF valAsbytes = <<>>
             THEN Fail(Error("product doesn't exist"))
           ELSE /\ productKV' = DelState(productKV, productName)
                /\ Wrote(CreateCompositeKey(productIndex, productName), valAsbytes[1], TRUE)
                /\ stateIdx' = stateIdx \ {<<valAsbytes[1].state, productName>>}
                /\ resp' = Success(NoPayload)
                /\ UNCHANGED <<plainKV, negotiationVars>>

\* the body of delete is commented out: it only reports success
Product_delete(productName) ==
    /\ cc = "ProductChaincode"
    /\ Invoke("delete", <<productName>>, NoCaller)
    /\ resp' = Success(NoPayload)
    /\ UNCHANGED <<ledgerVars, lastRead>>

Product_updateOwner(productName, oldOwner, newOwner, lastUpdated) ==
    /\ cc = "ProductChaincode"
    /\ Invoke("updateOwner", <<productName, oldOwner, newOwner, lastUpdated>>, NoCaller)
    /\ LET productAsBytes == GetState(plainKV, productName)
       IN  IF productAsBytes = <<>>
             THEN Fail(Error("Product does not exist"))
           ELSE LET productRead == UnmarshalProduct(productAsBytes[1])
                    keyName == productRead.Key.name
                IN  IF productRead.Value.owner # oldOwner
                      THEN Fail(Error("The specified product doesn't belong to the specified owner."))
                    ELSE LET value == [productRead.Value EXCEPT !.owner = newOwner,
                                                                !.lastUpdated = lastUpdated]
                         IN
                         /\ productKV' = PutState(productKV, keyName, value)
                         /\ Wrote(CreateCompositeKey(productIndex, keyName), value, FALSE)
                         /\ resp' = Success(NoPayload)
                         /\ UNCHANGED <<plainKV, stateIdx, negotiationVars>>

\* the history is asked for the plain key productName
Product_getHistoryForProduct(productName) ==
    /\ cc = "ProductChaincode"
    /\ Invoke("getHistoryForProduct", <<productName>>, NoCaller)
    /\ LET resultsIterator == GetHistoryForKey(catalogHistory, PlainKey(productName))
       IN  \* json.Unmarshal fails on the empty value of a delete
           IF \E i \in 1..Len(resultsIterator) : resultsIterator[i].isDelete
             THEN resp' = Error("unexpected end of JSON input")
             ELSE resp' = Success([i \in 1..Len(resultsIterator) |->
                                     [value |-> resultsIterator[i].value,
                                      isDelete |-> resultsIterator[i].isDelete]])
    /\ UNCHANGED <<ledgerVars, lastRead>>

\* ========================================================= OwnershipChaincode
\* unnamed/part_002 (TransferDetails and the handlers of the second revision)

TransferDetailsValue(status, message, timestamp) ==
    [status |-> status, message |-> message, timestamp |-> timestamp]

ToCompositeKey(productKey, requestSender, requestReceiver) ==
    <<productKey, requestSender, requestReceiver>>

ExistsIn(kv, key) == GetState(kv, key) # <<>>

\* stub.InvokeChaincode("reference", readProduct productKey, "common"): the
\* catalogue's readProduct on its committed state, or what a failing or foreign
\* callee hands back
InvokeChaincode(productKey, downstream) ==
    CASE downstream = "error" -> Error("chaincode invocation failed")
      [] downstream = "garbled" -> Success([garbled |-> TRUE])
      [] OTHER -> IF cc = "SimpleChaincode"
                    THEN Simple_readProductResponse(plainKV, productKey)
                    ELSE Product_readProductResponse(productKV, productKey)

\* json.Unmarshal into simplifiedProduct{Value{Owner}}
simplifiedProductOwner(payload) ==
    IF "value" \in DOMAIN payload /\ "owner" \in DOMAIN payload.value
      THEN payload.value.owner
      ELSE ""

\* the owner comparison left out
checkProductExistenceOnly(productKey, requiredOwner, downstream) ==
    LET response == InvokeChaincode(productKey, downstream)
    IN  IF response.status >= 400
          THEN "unable to read product from common channel"
        ELSE IF "garbled" \in DOMAIN response.payload
          THEN "unable to unmarshal response on product from common channel"
        ELSE ""

\* a failed read taken for a confirmation
checkOwnershipWhenReadable(productKey, requiredOwner, downstream) ==
    LET response == InvokeChaincode(productKey, downstream)
    IN  IF response.status >= 400
          THEN ""
        ELSE IF "garbled" \in DOMAIN response.payload
          THEN "unable to unmarshal response on product from common channel"
        ELSE IF simplifiedProductOwner(response.payload) # requiredOwner
          THEN "product doesn't belong to organization"
        ELSE ""

\* "" stands for the nil error
checkProductExistenceAndOwnership(productKey, requiredOwner, downstream) ==
    LET response == InvokeChaincode(productKey, downstream)
    IN  IF response.status >= 400
          THEN "unable to read product from common channel"
        ELSE IF "garbled" \in DOMAIN response.payload
          THEN "unable to unmarshal response on product from common channel"
        ELSE IF simplifiedProductOwner(response.payload) # requiredOwner
          THEN "product doesn't belong to organization"
        ELSE ""

\* old and new owner exchanged
EmitStateSwapped(productKey, requestSender, requestReceiver, status) ==
    [name |-> <<transferIndex, status>>,
     payload |-> [product_key |-> productKey, old_owner |-> requestSender,
                  new_owner |-> requestReceiver]]

EmitState(productKey, requestSender, requestReceiver, status) ==
    [name |-> <<transferIndex, status>>,
     payload |-> [product_key |-> productKey, old_owner |-> requestReceiver,
                  new_owner |-> requestSender]]

\* UpdateOrInsertIn of a transaction that gets committed: the value of the key
\* and one more element of the key's history
UpdateOrInsertIn(key, value) ==
    /\ transferKV' = PutState(transferKV, key, value)
    /\ keyHistory' = PutState(keyHistory, key,
                        IF key \in DOMAIN keyHistory THEN Append(keyHistory[key], value)
                        ELSE <<value>>)

\* the already-initiated check left out
sendRequestOverwriting(caller, productKey, sender, receiver, message, now, downstream) ==
    /\ Invoke("sendRequest", <<productKey, sender, receiver, message, now, downstream>>, caller)
    /\ LET key == ToCompositeKey(productKey, sender, receiver)
           check == checkProductExistenceAndOwnership(productKey, receiver, downstream)
       IN  IF caller # sender
             THEN Fail(Response(403, "no privileges to send request"))
           ELSE IF check # ""
             THEN Fail(Error(check))
           ELSE /\ UpdateOrInsertIn(key, TransferDetailsValue(statusInitiated, message, now))
                /\ resp' = Success(NoPayload)
                /\ UNCHANGED <<catalogVars, events, lastRead>>

\* the conflict test made against Accepted
sendRequestCheckingAccepted(caller, productKey, sender, receiver, message, now, downstream) ==
    /\ Invoke("sendRequest", <<productKey, sender, receiver, message, now, downstream>>, caller)
    /\ LET key == ToCompositeKey(productKey, sender, receiver)
           check == checkProductExistenceAndOwnership(productKey, receiver, downstream)
       IN  IF caller # sender
             THEN Fail(Response(403, "no privileges to send request"))
           ELSE IF ExistsIn(transferKV, key) /\ transferKV[key].status = statusAccepted
             THEN Fail(Error("ownership transfer is already initiated"))
           ELSE IF check # ""
             THEN Fail(Error(check))
           ELSE /\ UpdateOrInsertIn(key, TransferDetailsValue(statusInitiated, message, now))
                /\ resp' = Success(NoPayload)
                /\ UNCHANGED <<catalogVars, events, lastRead>>

\* every existing entry taken for a conflict
sendRequestOnce(caller, productKey, sender, receiver, message, now, downstream) ==
    /\ Invoke("sendRequest", <<productKey, sender, receiver, message, now, downstream>>, caller)
    /\ LET key == ToCompositeKey(productKey, sender, receiver)
           check == checkProductExistenceAndOwnership(productKey, receiver, downstream)
       IN  IF caller # sender
             THEN Fail(Response(403, "no privileges to send request"))
           ELSE IF ExistsIn(transferKV, key)
             THEN Fail(Error("ownership transfer is already initiated"))
           ELSE IF check # ""
             THEN Fail(Error(check))
           ELSE /\ UpdateOrInsertIn(key, TransferDetailsValue(statusInitiated, message, now))
                /\ resp' = Success(NoPayload)
                /\ UNCHANGED <<catalogVars, events, lastRead>>

\* the privilege failure answered through shim.Error
sendRequestAuthAsError(caller, productKey, sender, receiver, message, now, downstream) ==
    /\ Invoke("sendRequest", <<productKey, sender, receiver, message, now, downstream>>, caller)
    /\ LET key == ToCompositeKey(productKey, sender, receiver)
           check == checkProductExistenceAndOwnership(productKey, receiver, downstream)
       IN  IF caller # sender
             THEN Fail(Error("no privileges to send request"))
           ELSE IF ExistsIn(transferKV, key) /\ transferKV[key].status = statusInitiated
             THEN Fail(Error("ownership transfer is already initiated"))
           ELSE IF check # ""
             THEN Fail(Error(check))
           ELSE /\ UpdateOrInsertIn(key, TransferDetailsValue(statusInitiated, message, now))
                /\ resp' = Success(NoPayload)
                /\ UNCHANGED <<catalogVars, events, lastRead>>

sendRequest(caller, productKey, sender, receiver, message, now, downstream) ==
    /\ Invoke("sendRequest", <<productKey, sender, receiver, message, now, downstream>>, caller)
    /\ LET key == ToCompositeKey(productKey, sender, receiver)
           check == checkProductExistenceAndOwnership(productKey, receiver, downstream)
       IN  IF caller # sender
             THEN Fail(Response(403, "no privileges to send request"))
           ELSE IF ExistsIn(transferKV, key) /\ transferKV[key].status = statusInitiated
             THEN Fail(Error("ownership transfer is already initiated"))
           ELSE IF check # ""
             THEN Fail(Error(check))
           ELSE /\ UpdateOrInsertIn(key, TransferDetailsValue(statusInitiated, message, now))
                /\ resp' = Success(NoPayload)
                /\ UNCHANGED <<catalogVars, events, lastRead>>

\* the status test left out
editRequestAnyStatus(caller, productKey, sender, receiver, message, now) ==
    /\ Invoke("editRequest", <<productKey, sender, receiver, message, now>>, caller)
    /\ LET key == ToCompositeKey(productKey, sender, receiver)
       IN  IF caller # sender
             THEN Fail(Response(403, "no privileges to edit request"))
           ELSE IF ~ExistsIn(transferKV, key)
             THEN Fail(Error("ownership transfer wasn't initiated"))
           ELSE /\ UpdateOrInsertIn(key, [transferKV[key] EXCEPT !.message = message,
                                                                 !.timestamp = now])
                /\ resp' = Success(NoPayload)
                /\ UNCHANGED <<catalogVars, events, lastRead>>

\* the stored value not loaded before it is rewritten
editRequestDroppingStatus(caller, productKey, sender, receiver, message, now) ==
    /\ Invoke("editRequest", <<productKey, sender, receiver, message, now>>, caller)
    /\ LET key == ToCompositeKey(productKey, sender, receiver)
       IN  IF caller # sender
             THEN Fail(Response(403, "no privileges to edit request"))
           ELSE IF ~ExistsIn(transferKV, key)
             THEN Fail(Error("ownership transfer wasn't initiated"))
           ELSE IF transferKV[key].status # statusInitiated
             THEN Fail(Error("ownership transfer wasn't initiated"))
           ELSE /\ UpdateOrInsertIn(key, TransferDetailsValue("", message, now))
                /\ resp' = Success(NoPayload)
                /\ UNCHANGED <<catalogVars, events, lastRead>>

editRequest(caller, productKey, sender, receiver, message, now) ==
    /\ Invoke("editRequest", <<productKey, sender, receiver, message, now>>, caller)
    /\ LET key == ToCompositeKey(productKey, sender, receiver)
       IN  IF caller # sender
             THEN Fail(Response(403, "no privileges to edit request"))
           ELSE IF ~ExistsIn(transferKV, key)
             THEN Fail(Error("ownership transfer wasn't initiated"))
           ELSE IF transferKV[key].status # statusInitiated
             THEN Fail(Error("ownership transfer wasn't initiated"))
           ELSE /\ UpdateOrInsertIn(key, [transferKV[key] EXCEPT !.message = message,
                                                                 !.timestamp = now])
                /\ resp' = Success(NoPayload)
                /\ UNCHANGED <<catalogVars, events, lastRead>>

\* the acceptance also rewriting the owner of the catalogue record
transferAcceptedMovingOwner(caller, productKey, sender, receiver, now, downstream, fault) ==
    /\ Invoke("transferAccepted", <<productKey, sender, receiver, now, downstream, fault>>, caller)
    /\ LET key == ToCompositeKey(productKey, sender, receiver)
           check == checkProductExistenceAndOwnership(productKey, receiver, downstream)
       IN  IF caller # receiver
             THEN Fail(Response(403, "no privileges to accept transfer"))
           ELSE IF ~ExistsIn(transferKV, key)
             THEN Fail(Error("ownership transfer wasn't initiated"))
           ELSE IF transferKV[key].status # statusInitiated
             THEN Fail(Error("ownership transfer wasn't initiated"))
           ELSE IF check # ""
             THEN Fail(Error(check))
           ELSE IF fault = "put"
             THEN Fail(Response(500, "persistence error"))
           ELSE IF fault = "event"
             THEN Fail(Error("set event failed"))
           ELSE /\ UpdateOrInsertIn(key, [transferKV[key] EXCEPT !.status = statusAccepted,
                                                                 !.timestamp = now])
                /\ productKV' = PutState(productKV, productKey,
                                    [productKV[productKey] EXCEPT !.owner = ToLower(sender)])
                /\ events' = Append(events,
                                    EmitState(productKey, sender, receiver, statusAccepted))
                /\ resp' = Success(NoPayload)
                /\ UNCHANGED <<plainKV, stateIdx, catalogHistory, lastRead>>

\* the status written before a failing SetEvent staying in the ledger
transferAcceptedKeepingWrite(caller, productKey, sender, receiver, now, downstream, fault) ==
    /\ Invoke("transferAccepted", <<productKey, sender, receiver, now, downstream, fault>>, caller)
    /\ LET key == ToCompositeKey(productKey, sender, receiver)
           check == checkProductExistenceAndOwnership(productKey, receiver, downstream)
       IN  IF caller # receiver
             THEN Fail(Response(403, "no privileges to accept transfer"))
           ELSE IF ~ExistsIn(transferKV, key)
             THEN Fail(Error("ownership transfer wasn't initiated"))
           ELSE IF transferKV[key].status # statusInitiated
             THEN Fail(Error("ownership transfer wasn't initiated"))
           ELSE IF check # ""
             THEN Fail(Error(check))
           ELSE IF fault = "put"
             THEN Fail(Response(500, "persistence error"))
           ELSE IF fault = "event"
             THEN /\ UpdateOrInsertIn(key, [transferKV[key] EXCEPT !.status = statusAccepted,
                                                                   !.timestamp = now])
                  /\ resp' = Error("set event failed")
                  /\ UNCHANGED <<catalogVars, events, lastRead>>
           ELSE /\ UpdateOrInsertIn(key, [transferKV[key] EXCEPT !.status = statusAccepted,
                                                                 !.timestamp = now])
                /\ events' = Append(events,
                                    EmitState(productKey, sender, receiver, statusAccepted))
                /\ resp' = Success(NoPayload)
                /\ UNCHANGED <<catalogVars, lastRead>>

\* fault: the stub call of this invocation that returns an error, if any.
\* A response that is not a success is not endorsed, so what the handler had
\* put into its write set before the failure never reaches the ledger.
transferAccepted(caller, productKey, sender, receiver, now, downstream, fault) ==
    /\ Invoke("transferAccepted", <<productKey, sender, receiver, now, downstream, fault>>, caller)
    /\ LET key == ToCompositeKey(productKey, sender, receiver)
           check == checkProductExistenceAndOwnership(productKey, receiver, downstream)
       IN  IF caller # receiver
             THEN Fail(Response(403, "no privileges to accept transfer"))
           ELSE IF ~ExistsIn(transferKV, key)
             THEN Fail(Error("ownership transfer wasn't initiated"))
           ELSE IF transferKV[key].status # statusInitiated
             THEN Fail(Error("ownership transfer wasn't initiated"))
           ELSE IF check # ""
             THEN Fail(Error(check))
           ELSE IF fault = "put"
             THEN Fail(Response(500, "persistence error"))
           ELSE IF fault = "event"
             THEN Fail(Error("set event failed"))
           ELSE /\ UpdateOrInsertIn(key, [transferKV[key] EXCEPT !.status = statusAccepted,
                                                                 !.timestamp = now])
                /\ events' = Append(events,
                                    EmitState(productKey, sender, receiver, statusAccepted))
                /\ resp' = Success(NoPayload)
                /\ UNCHANGED <<catalogVars, lastRead>>

\* the privilege check left out
transferRejectedAnyCaller(caller, productKey, sender, receiver, now) ==
    /\ Invoke("transferRejected", <<productKey, sender, receiver, now>>, caller)
    /\ LET key == ToCompositeKey(productKey, sender, receiver)
           creatorIsReceiver == caller = receiver
       IN  IF ~ExistsIn(transferKV, key)
             THEN Fail(Error("ownership transfer wasn't initiated"))
           ELSE IF transferKV[key].status # statusInitiated
             THEN Fail(Error("ownership transfer wasn't initiated"))
           ELSE /\ UpdateOrInsertIn(key, [transferKV[key] EXCEPT
                                            !.status = IF creatorIsReceiver THEN statusRejected
                                                       ELSE statusCancelled,
                                            !.timestamp = now])
                /\ resp' = Success(NoPayload)
                /\ UNCHANGED <<catalogVars, events, lastRead>>

\* the sender tested before the receiver
transferRejectedSenderFirst(caller, productKey, sender, receiver, now) ==
    /\ Invoke("transferRejected", <<productKey, sender, receiver, now>>, caller)
    /\ LET key == ToCompositeKey(productKey, sender, receiver)
           creatorIsReceiver == caller = receiver
           creatorIsSender == caller = sender
       IN  IF ~creatorIsReceiver /\ ~creatorIsSender
             THEN Fail(Response(403, "no privileges to reject transfer"))
           ELSE IF ~ExistsIn(transferKV, key)
             THEN Fail(Error("ownership transfer wasn't initiated"))
           ELSE IF transferKV[key].status # statusInitiated
             THEN Fail(Error("ownership transfer wasn't initiated"))
           ELSE /\ UpdateOrInsertIn(key, [transferKV[key] EXCEPT
                                            !.status = IF creatorIsSender THEN statusCancelled
                                                       ELSE statusRejected,
                                            !.timestamp = now])
                /\ resp' = Success(NoPayload)
                /\ UNCHANGED <<catalogVars, events, lastRead>>

\* the refusal announced with an event
transferRejectedEmitting(caller, productKey, sender, receiver, now) ==
    /\ Invoke("transferRejected", <<productKey, sender, receiver, now>>, caller)
    /\ LET key == ToCompositeKey(productKey, sender, receiver)
           creatorIsReceiver == caller = receiver
           creatorIsSender == caller = sender
           status == IF creatorIsReceiver THEN statusRejected ELSE statusCancelled
       IN  IF ~creatorIsReceiver /\ ~creatorIsSender
             THEN Fail(Response(403, "no privileges to reject transfer"))
           ELSE IF ~ExistsIn(transferKV, key)
             THEN Fail(Error("ownership transfer wasn't initiated"))
           ELSE IF transferKV[key].status # statusInitiated
             THEN Fail(Error("ownership transfer wasn't initiated"))
           ELSE /\ UpdateOrInsertIn(key, [transferKV[key] EXCEPT !.status = status,
                                                                 !.timestamp = now])
                /\ events' = Append(events, EmitState(productKey, sender, receiver, status))
                /\ resp' = Success(NoPayload)
                /\ UNCHANGED <<catalogVars, lastRead>>

\* the rejection asking the catalogue as the acceptance does
transferRejectedVerifying(caller, productKey, sender, receiver, now) ==
    /\ Invoke("transferRejected", <<productKey, sender, receiver, now>>, caller)
    /\ LET key == ToCompositeKey(productKey, sender, receiver)
           creatorIsReceiver == caller = receiver
           creatorIsSender == caller = sender
           check == checkProductExistenceAndOwnership(productKey, receiver, "ok")
       IN  IF ~creatorIsReceiver /\ ~creatorIsSender
             THEN Fail(Response(403, "no privileges to reject transfer"))
           ELSE IF ~ExistsIn(transferKV, key)
             THEN Fail(Error("ownership transfer wasn't initiated"))
           ELSE IF transferKV[key].status # statusInitiated
             THEN Fail(Error("ownership transfer wasn't initiated"))
           ELSE IF check # ""
             THEN Fail(Error(check))
           ELSE /\ UpdateOrInsertIn(key, [transferKV[key] EXCEPT
                                            !.status = IF creatorIsReceiver THEN statusRejected
                                                       ELSE statusCancelled,
                                            !.timestamp = now])
                /\ resp' = Success(NoPayload)
                /\ UNCHANGED <<catalogVars, events, lastRead>>

transferRejected(caller, productKey, sender, receiver, now) ==
    /\ Invoke("transferRejected", <<productKey, sender, receiver, now>>, caller)
    /\ LET key == ToCompositeKey(productKey, sender, receiver)
           creatorIsReceiver == caller = receiver
           creatorIsSender == caller = sender
       IN  IF ~creatorIsReceiver /\ ~creatorIsSender
             THEN Fail(Response(403, "no privileges to reject transfer"))
           ELSE IF ~ExistsIn(transferKV, key)
             THEN Fail(Error("ownership transfer wasn't initiated"))
           ELSE IF transferKV[key].status # statusInitiated
             THEN Fail(Error("ownership transfer wasn't initiated"))
           ELSE /\ UpdateOrInsertIn(key, [transferKV[key] EXCEPT
                                            !.status = IF creatorIsReceiver THEN statusRejected
                                                       ELSE statusCancelled,
                                            !.timestamp = now])
                /\ resp' = Success(NoPayload)
                /\ UNCHANGED <<catalogVars, events, lastRead>>

\* --- transferAccepted as two steps: the simulation of the handler on a peer,
\* and the commit of the transaction it produced, other transactions being
\* committed in between

\* the version of a key: the number of values committed to it
Version(key) == IF key \in DOMAIN keyHistory THEN Len(keyHistory[key]) ELSE 0

\* what a successful simulation hands to the orderer: the write set, the
\* event, and the version of the one key of this channel the handler read.
\* The product was read on another channel and is not in the read set.
Transaction(key, value, event) ==
    [key |-> key, value |-> value, event |-> event, readVersion |-> Version(key)]

\* the simulation accepting without asking the catalogue
simulateTransferAcceptedUnverified(caller, productKey, sender, receiver, now, downstream) ==
    /\ Cardinality(pending) < MaxPending
    /\ Propose("transferAccepted", <<productKey, sender, receiver, now, downstream, "none">>,
               caller)
    /\ LET key == ToCompositeKey(productKey, sender, receiver)
       IN  IF caller # receiver
             THEN Fail(Response(403, "no privileges to accept transfer")) /\ UNCHANGED pending
           ELSE IF ~ExistsIn(transferKV, key)
             THEN Fail(Error("ownership transfer wasn't initiated")) /\ UNCHANGED pending
           ELSE IF transferKV[key].status # statusInitiated
             THEN Fail(Error("ownership transfer wasn't initiated")) /\ UNCHANGED pending
           ELSE /\ pending' = pending \cup
                      {Transaction(key,
                                   [transferKV[key] EXCEPT !.status = statusAccepted,
                                                           !.timestamp = now],
                                   EmitState(productKey, sender, receiver, statusAccepted))}
                /\ resp' = Success(NoPayload)
                /\ UNCHANGED <<ledgerVars, lastRead>>

simulateTransferAccepted(caller, productKey, sender, receiver, now, downstream) ==
    /\ Cardinality(pending) < MaxPending
    /\ Propose("transferAccepted", <<productKey, sender, receiver, now, downstream, "none">>,
               caller)
    /\ LET key == ToCompositeKey(productKey, sender, receiver)
           check == checkProductExistenceAndOwnership(productKey, receiver, downstream)
       IN  IF caller # receiver
             THEN Fail(Response(403, "no privileges to accept transfer")) /\ UNCHANGED pending
           ELSE IF ~ExistsIn(transferKV, key)
             THEN Fail(Error("ownership transfer wasn't initiated")) /\ UNCHANGED pending
           ELSE IF transferKV[key].status # statusInitiated
             THEN Fail(Error("ownership transfer wasn't initiated")) /\ UNCHANGED pending
           ELSE IF check # ""
             THEN Fail(Error(check)) /\ UNCHANGED pending
           ELSE /\ pending' = pending \cup
                      {Transaction(key,
                                   [transferKV[key] EXCEPT !.status = statusAccepted,
                                                           !.timestamp = now],
                                   EmitState(productKey, sender, receiver, statusAccepted))}
                /\ resp' = Success(NoPayload)
                /\ UNCHANGED <<ledgerVars, lastRead>>

\* the ledger validates the read set and applies the write set; it does not
\* run the handler again
commitTransaction(tx) ==
    /\ tx \in pending
    /\ pending' = pending \ {tx}
    /\ call' = [fn |-> "commit", args |-> tx.key, caller |-> NoCaller]
    /\ UNCHANGED <<cc, nOps>>
    /\ IF Version(tx.key) = tx.readVersion
         THEN /\ UpdateOrInsertIn(tx.key, tx.value)
              /\ events' = Append(events, tx.event)
              /\ resp' = Success(NoPayload)
              /\ UNCHANGED <<catalogVars, lastRead>>
         ELSE Fail(Response(409, "MVCC_READ_CONFLICT"))

\* the byte order of the strings of the universe
ByteRank(str) ==
    CASE str = "Book" -> 1
      [] str = "OrgC" -> 2
      [] str = "Pen" -> 3
      [] str = "a" -> 4
      [] str = "b" -> 5
      [] OTHER -> 6

\* composite keys compare as their parts do, part by part
KeyLess(k1, k2) ==
    \/ ByteRank(k1[1]) < ByteRank(k2[1])
    \/ /\ k1[1] = k2[1]
       /\ \/ ByteRank(k1[2]) < ByteRank(k2[2])
          \/ /\ k1[2] = k2[2]
             /\ ByteRank(k1[3]) < ByteRank(k2[3])

\* GetStateByPartialCompositeKey: the keys of a set in the iterator's order
RECURSIVE KeysInOrder(_)
KeysInOrder(keys) ==
    IF keys = {} THEN <<>>
    ELSE LET first == CHOOSE k \in keys : \A other \in keys \ {k} : KeyLess(k, other)
         IN  <<first>> \o KeysInOrder(keys \ {first})

TransferDetailsEntry(key, value) ==
    [key |-> [productKey |-> key[1], requestSender |-> key[2],
              requestReceiver |-> key[3]],
     value |-> value]

\* the entries that are not Initiated left out
queryEntriesInitiatedOnly(kv) ==
    LET keys == KeysInOrder({k \in DOMAIN kv : kv[k].status = statusInitiated})
    IN  [i \in 1..Len(keys) |-> TransferDetailsEntry(keys[i], kv[keys[i]])]

queryEntries(kv) ==
    LET keys == KeysInOrder(DOMAIN kv)
    IN  [i \in 1..Len(keys) |-> TransferDetailsEntry(keys[i], kv[keys[i]])]

RECURSIVE historyOfKeys(_, _)
historyOfKeys(hist, keys) ==
    IF keys = <<>> THEN <<>>
    ELSE LET key == Head(keys)
         IN  [i \in 1..Len(hist[key]) |-> TransferDetailsEntry(key, hist[key][i])]
                 \o historyOfKeys(hist, Tail(keys))

\* the product of the argument not used to select the keys
historyEntriesAllKeys(kv, hist, productKey) ==
    historyOfKeys(hist, KeysInOrder(DOMAIN kv))

\* the keys GetStateByPartialCompositeKey(transferIndex, productKey) finds are
\* those of the world state; GetHistoryForKey gives each one's committed values
historyEntries(kv, hist, productKey) ==
    historyOfKeys(hist, KeysInOrder({k \in DOMAIN kv : k[1] = productKey}))

query(caller) ==
    /\ Invoke("query", <<>>, caller)
    /\ resp' = Success(queryEntries(transferKV))
    /\ UNCHANGED <<ledgerVars, lastRead>>

history(caller, productKey) ==
    /\ Invoke("history", <<productKey>>, caller)
    /\ resp' = Success(historyEntries(transferKV, keyHistory, productKey))
    /\ UNCHANGED <<ledgerVars, lastRead>>

\* ============================================================= specifications
EmptyKV == [k \in {} |-> NoPayload]

InitWith(revisions) ==
    /\ cc \in revisions
    /\ plainKV = EmptyKV
    /\ productKV = EmptyKV
    /\ stateIdx = {}
    /\ transferKV = EmptyKV
    /\ keyHistory = EmptyKV
    /\ events = <<>>
    /\ pending = {}
    /\ call = [fn |-> "Init", args |-> <<>>, caller |-> NoCaller]
    /\ resp = Success(NoPayload)
    /\ nOps = 0
    /\ catalogHistory = EmptyKV
    /\ lastRead = NoRead

\* --- the catalogue of chaincode/go/reference alone
RefNames == {"Book"}
RefOwners == {"a", "OrgC"}
RefOldOwners == {"a", "orgc"}

InitReference == InitWith({"SimpleChaincode"})

NextReference ==
    \/ \E n \in RefNames, s \in ArgStates, o \in RefOwners :
          Simple_initProduct(n, "Go Tutorial", s, o, 1)
    \/ \E n \in RefNames, d \in Descs, s \in ArgStates, o \in RefOwners :
          Simple_updateProduct(n, d, s, o, 2)
    \/ \E n \in RefNames : Simple_readProduct(n)
    \/ \E n \in RefNames : Simple_delete(n)
    \/ \E n \in RefNames, o \in RefOwners : Simple_transferProduct(n, o)
    \/ \E n \in RefNames : Simple_getHistoryForProduct(n)
    \/ \E s \in ArgStates, o \in RefOwners : Simple_transferProductsBasedOnState(s, o)
    \/ \E n \in RefNames, old \in RefOldOwners, new \in RefOwners :
          Simple_updateOwner(n, old, new, 2)

SpecReference == InitReference /\ [][NextReference]_vars

\* --- the catalogue of unnamed/part_001 alone
InitProduct == InitWith({"ProductChaincode"})

\* the PutState of the index entry succeeds or fails
IndexFaults == {"none", "index"}

NextProduct ==
    \* the index write is let fail in the registration of a Registered product
    \/ \E n \in RefNames, s \in ArgStates, o \in RefOwners, f \in IndexFaults :
          /\ f = "none" \/ s = stateRegistered
          /\ Product_initProduct(n, "Go Tutorial", s, o, 1, f)
    \/ \E n \in RefNames, d \in Descs, s \in ArgStates, o \in RefOwners :
          Product_updateProduct(n, d, s, o, 2)
    \/ \E n \in RefNames : Product_readProduct(n)
    \/ \E n \in RefNames : Product_delete(n)
    \/ \E n \in RefNames : Product_getHistoryForProduct(n)
    \/ \E n \in RefNames, old \in RefOldOwners, new \in RefOwners :
          Product_updateOwner(n, old, new, 2)

SpecProduct == InitProduct /\ [][NextProduct]_vars

\* --- the negotiation over the catalogue of unnamed/part_001
StoredOrgs == {ToLower(o) : o \in Orgs}
Senders == {"a", "b"}
Receivers == {"a", "OrgC"}
Downstream == {"ok", "error", "garbled"}
StubFaults == {"none", "put", "event"}
HistoryNames == {"Book", "Pen"}
Readers == {"a", "OrgC"}
OwnerUpdates == {<<"a", "b">>, <<"b", "a">>}

\* time.Now().UTC().Unix(): a clock that advances with every invocation
Now == nOps + 1

NextNegotiation ==
    \/ \E n \in RefNames, o \in Orgs :
          Product_initProduct(n, "Go Tutorial", stateRegistered, o, 1, "none")
    \/ \E n \in RefNames, u \in OwnerUpdates :
          Product_updateOwner(n, u[1], u[2], 2)
    \/ \E c \in Orgs, n \in RefNames, s \in Senders, r \in Receivers, m \in Msgs,
          ds \in Downstream : sendRequest(c, n, s, r, m, Now, ds)
    \/ \E c \in Orgs, n \in RefNames, s \in Senders, r \in Receivers, m \in Msgs :
          editRequest(c, n, s, r, m, Now)
    \* a stub call can only fail in an invocation that got as far as calling it
    \/ \E c \in Orgs, n \in RefNames, s \in Senders, r \in Receivers,
          ds \in Downstream, f \in StubFaults :
          /\ ds = "ok" \/ f = "none"
          /\ transferAccepted(c, n, s, r, Now, ds, f)
    \/ \E c \in Orgs, n \in RefNames, s \in Senders, r \in Receivers :
          transferRejected(c, n, s, r, Now)
    \/ \E c \in Readers : query(c)
    \/ \E c \in Readers, n \in HistoryNames : history(c, n)

SpecNegotiation == InitProduct /\ [][NextNegotiation]_vars

\* --- an acceptance simulated and committed while other transactions commit
RaceOrgs == {"a", "b"}
RaceReceivers == {"a"}

NextRace ==
    \/ \E n \in RefNames, o \in RaceOrgs :
          Product_initProduct(n, "Go Tutorial", stateRegistered, o, 1, "none")
    \/ \E c \in RaceOrgs, n \in RefNames, s \in RaceOrgs, r \in RaceReceivers :
          sendRequest(c, n, s, r, "msg", Now, "ok")
    \/ \E c \in RaceOrgs, n \in RefNames, s \in RaceOrgs, r \in RaceReceivers :
          transferRejected(c, n, s, r, Now)
    \/ \E c \in RaceOrgs, n \in RefNames, s \in RaceOrgs, r \in RaceReceivers :
          simulateTransferAccepted(c, n, s, r, Now, "ok")
    \/ \E tx \in pending : commitTransaction(tx)

SpecRace == InitProduct /\ [][NextRace]_vars

\* --- everything
\* --- the negotiation over a catalogue in which initProduct has registered
\* Book for organisation a; nOps counts the invocations that follow
RegisteredValue == ProductValue("Go Tutorial", stateRegistered, 1, "a")

InitRegistered ==
    /\ cc = "ProductChaincode"
    /\ plainKV = EmptyKV
    /\ productKV = PutState(EmptyKV, "Book", RegisteredValue)
    /\ stateIdx = {<<stateRegistered, "Book">>}
    /\ catalogHistory = Committed(EmptyKV, CreateCompositeKey(productIndex, "Book"),
                                  RegisteredValue, FALSE)
    /\ transferKV = EmptyKV
    /\ keyHistory = EmptyKV
    /\ events = <<>>
    /\ pending = {}
    /\ lastRead = NoRead
    /\ call = [fn |-> "initProduct",
               args |-> <<"Book", "Go Tutorial", stateRegistered, "a", 1, "none">>,
               caller |-> NoCaller]
    /\ resp = Success(NoPayload)
    /\ nOps = 0

\* two organisations that ask the owner for the product
Applicants == {"b", "OrgC"}

NextRegistered ==
    \/ \E c \in Orgs, n \in RefNames, s \in Applicants, r \in RaceReceivers :
          sendRequest(c, n, s, r, "msg", Now, "ok")
    \/ \E c \in Orgs, n \in RefNames, s \in Applicants, r \in RaceReceivers :
          transferAccepted(c, n, s, r, Now, "ok", "none")
    \/ \E c \in Orgs, n \in RefNames, s \in Applicants, r \in RaceReceivers :
          transferRejected(c, n, s, r, Now)

SpecRegistered == InitRegistered /\ [][NextRegistered]_vars

Init == InitWith({"SimpleChaincode", "ProductChaincode"})

Next == NextReference \/ NextProduct \/ NextNegotiation \/ NextRace

Spec == Init /\ [][Next]_vars

\* ===================================================================== claims

\* the transition table as the design states it
TransitionTable(s) ==
    CASE s = stateRegistered -> {stateRegistered, stateActive}
      [] s = stateActive -> {stateActive, stateDecisionMaking}
      [] s = stateDecisionMaking -> {stateActive, stateDecisionMaking, stateInactive}
      [] s = stateInactive -> {stateInactive}
      [] OTHER -> {}

\* every product of kv in state S has the index entry (S, name) and no other
IndexConsistent(kv, idx) ==
    \A n \in DOMAIN kv : {e \in idx : e[2] = n} = {<<kv[n].state, n>>}

\* C1: a successful initProduct or updateProduct keeps the state index exact:
\* every product in state S has the one index entry (S, name) and none for
\* another state.
C1_IndexTracksState ==
    [][ ( /\ call'.fn \in {"initProduct", "updateProduct"}
          /\ resp'.status = 200
          /\ IndexConsistent(plainKV, stateIdx)
          /\ IndexConsistent(productKV, stateIdx) )
        => ( /\ IndexConsistent(plainKV', stateIdx')
             /\ IndexConsistent(productKV', stateIdx') ) ]_vars

\* C2: updateProduct moves a product from state s to s2 only when the table
\* allows s2 after s; a request for any other state is answered "Not legal
\* product state" and changes neither the record nor the index.
C2_TransitionTableEnforced ==
    [][ call'.fn = "updateProduct" =>
          \A n \in DOMAIN plainKV :
             /\ (n \in DOMAIN plainKV' /\ plainKV'[n].state # plainKV[n].state)
                   => plainKV'[n].state \in TransitionTable(plainKV[n].state)
             /\ (n = call'.args[1] /\ call'.args[3] \notin TransitionTable(plainKV[n].state))
                   => ( /\ resp' = Error("Not legal product state")
                        /\ UNCHANGED <<plainKV, stateIdx>> ) ]_vars

\* C2 witness: a Registered product was asked to become Inactive and refused
C2_Witness ==
    /\ call.fn = "updateProduct"
    /\ call.args[3] = stateInactive
    /\ resp.message = "Not legal product state"
    /\ call.args[1] \in DOMAIN plainKV
    /\ plainKV[call.args[1]].state = stateRegistered

\* the catalogue (as readProduct of the deployed revision sees it) holds
\* product p with owner o
Owns(o, p) ==
    IF cc = "SimpleChaincode"
      THEN p \in DOMAIN plainKV /\ plainKV[p].owner = o
      ELSE p \in DOMAIN productKV /\ productKV[p].owner = o

ProductExists(p) == p \in DOMAIN plainKV \/ p \in DOMAIN productKV

IsInitiated(kv, key) == key \in DOMAIN kv /\ kv[key].status = statusInitiated

AcceptedEvent(p, s, r) ==
    [name |-> <<transferIndex, statusAccepted>>,
     payload |-> [product_key |-> p, old_owner |-> r, new_owner |-> s]]

C4_AcceptedOnlyWhenReceiverOwns ==
    [][ /\ \A k \in DOMAIN transferKV' :
             ( /\ transferKV'[k].status = statusAccepted
               /\ (k \notin DOMAIN transferKV \/ transferKV[k].status # statusAccepted) )
             => Owns(k[3], k[1])
        /\ ( /\ call'.fn = "transferAccepted"
             /\ call'.caller = call'.args[3]
             /\ IsInitiated(transferKV, <<call'.args[1], call'.args[2], call'.args[3]>>)
             /\ ~Owns(call'.args[3], call'.args[1]) )
           => ( /\ resp'.status # 200
                /\ transferKV' = transferKV
                /\ events' = events ) ]_vars

\* C4 witness: the receiver's acceptance was refused because the product,
\* still in the catalogue, is no longer owned by the receiver
C4_Witness ==
    /\ call.fn = "transferAccepted"
    /\ call.caller = call.args[3]
    /\ call.args[5] = "ok"
    /\ resp.message = "product doesn't belong to organization"
    /\ IsInitiated(transferKV, <<call.args[1], call.args[2], call.args[3]>>)
    /\ ProductExists(call.args[1])
    /\ events = <<>>

\* C5: sendRequest and editRequest by a caller other than the sender,
\* transferAccepted by a caller other than the receiver and transferRejected
\* by a caller that is neither are answered 403 and write nothing, whatever
\* the stored entry is.
C5_UnauthorizedCallerWritesNothing ==
    [][ LET fn == call'.fn
            c == call'.caller
            permitted ==
                CASE fn \in {"sendRequest", "editRequest"} -> c = call'.args[2]
                  [] fn = "transferAccepted" -> c = call'.args[3]
                  [] fn = "transferRejected" -> c \in {call'.args[2], call'.args[3]}
                  [] OTHER -> TRUE
        IN  ~permitted => (resp'.status = 403 /\ UNCHANGED ledgerVars) ]_vars

\* C5 witness: a third organisation tried to reject an Initiated request
C5_Witness ==
    /\ call.fn = "transferRejected"
    /\ call.caller \notin {call.args[2], call.args[3]}
    /\ resp.status = 403
    /\ IsInitiated(transferKV, <<call.args[1], call.args[2], call.args[3]>>)

\* C6: initProduct (state Registered) with the name of a product that exists
\* is answered "This product already exists" and changes neither the record
\* nor the index.
C6_DuplicateInitRejected ==
    [][ ( /\ call'.fn = "initProduct"
          /\ call'.args[3] = stateRegistered
          /\ ProductExists(call'.args[1]) )
        => ( /\ resp' = Error("This product already exists")
             /\ UNCHANGED catalogVars ) ]_vars

\* C7: initProduct with state Active, DecisionMaking or Inactive is answered
\* "Not legal product state" and creates neither a record nor an index entry.
C7_InitOnlyRegistered ==
    [][ ( /\ call'.fn = "initProduct"
          /\ call'.args[3] \in {stateActive, stateDecisionMaking, stateInactive} )
        => ( /\ resp' = Error("Not legal product state")
             /\ UNCHANGED catalogVars ) ]_vars

\* C8: updateProduct of an existing product to a state the table allows
\* succeeds, and the record then carries the desc, state and lastUpdated of
\* the call.
C8_AllowedUpdateApplies ==
    [][ ( /\ call'.fn = "updateProduct"
          /\ call'.args[1] \in DOMAIN productKV
          /\ call'.args[3] \in TransitionTable(productKV[call'.args[1]].state) )
        => ( /\ resp'.status = 200
             /\ productKV'[call'.args[1]].desc = call'.args[2]
             /\ productKV'[call'.args[1]].state = call'.args[3]
             /\ productKV'[call'.args[1]].lastUpdated = call'.args[5] ) ]_vars

\* C9: sendRequest by the sender for a triple whose entry is Initiated is
\* answered "ownership transfer is already initiated" and leaves status,
\* message and timestamp of the entry as they were.
C9_SecondRequestRejected ==
    [][ ( /\ call'.fn = "sendRequest"
          /\ call'.caller = call'.args[2]
          /\ IsInitiated(transferKV, <<call'.args[1], call'.args[2], call'.args[3]>>) )
        => ( /\ resp' = Error("ownership transfer is already initiated")
             /\ transferKV' = transferKV ) ]_vars

\* C9 witness: a second request carrying another message was refused
C9_Witness ==
    /\ call.fn = "sendRequest"
    /\ resp.message = "ownership transfer is already initiated"
    /\ IsInitiated(transferKV, <<call.args[1], call.args[2], call.args[3]>>)
    /\ transferKV[<<call.args[1], call.args[2], call.args[3]>>].message # call.args[4]
    /\ transferKV[<<call.args[1], call.args[2], call.args[3]>>].timestamp # call.args[5]

VerifierErrors ==
    {"unable to read product from common channel",
     "unable to unmarshal response on product from common channel",
     "product doesn't belong to organization"}

VerifierConfirms(p, r, downstream) == downstream = "ok" /\ Owns(r, p)

\* C10 as stated: sendRequest by the sender fails with the verifier's error
\* and writes nothing whenever the verifier does not confirm that R owns P.
C10_UnconfirmedRequestIsDownstreamError ==
    [][ ( /\ call'.fn = "sendRequest"
          /\ call'.caller = call'.args[2]
          /\ ~VerifierConfirms(call'.args[1], call'.args[3], call'.args[6]) )
        => ( /\ resp'.status = 500
             /\ resp'.message \in VerifierErrors
             /\ UNCHANGED ledgerVars ) ]_vars

\* C10 amended: the same, for a triple that has no Initiated entry (with one,
\* the call is refused as already initiated before the verifier is asked; it
\* writes nothing in either case).
C10_UnconfirmedRequestFails ==
    [][ ( /\ call'.fn = "sendRequest"
          /\ call'.caller = call'.args[2]
          /\ ~VerifierConfirms(call'.args[1], call'.args[3], call'.args[6]) )
        => ( /\ UNCHANGED ledgerVars
             /\ resp'.status = 500
             /\ IF IsInitiated(transferKV, <<call'.args[1], call'.args[2], call'.args[3]>>)
                  THEN resp'.message = "ownership transfer is already initiated"
                  ELSE resp'.message \in VerifierErrors ) ]_vars

\* C10 witness: a request for a product that another organisation owns was
\* refused by the verifier
C10_Witness ==
    /\ call.fn = "sendRequest"
    /\ call.caller = call.args[2]
    /\ call.args[6] = "ok"
    /\ resp.message = "product doesn't belong to organization"
    /\ ProductExists(call.args[1])
    /\ transferKV = EmptyKV

\* what initProduct stores for a product registered with owner argument o
RegisteredWith(p, o) == p \in DOMAIN productKV /\ productKV[p].owner = ToLower(o)

TerminalStatuses == {statusAccepted, statusRejected, statusCancelled}

\* C11: sendRequest(P, S, R, msg) by S, with no Initiated entry for the triple
\* and P registered by initProduct with owner R, succeeds and leaves the entry
\* Initiated with message msg.
C11_RequestOnRegisteredProductSucceeds ==
    [][ ( /\ call'.fn = "sendRequest"
          /\ call'.caller = call'.args[2]
          /\ call'.args[6] = "ok"
          /\ ~IsInitiated(transferKV, <<call'.args[1], call'.args[2], call'.args[3]>>)
          /\ RegisteredWith(call'.args[1], call'.args[3]) )
        => ( /\ resp'.status = 200
             /\ IsInitiated(transferKV', <<call'.args[1], call'.args[2], call'.args[3]>>)
             /\ transferKV'[<<call'.args[1], call'.args[2], call'.args[3]>>].message
                    = call'.args[4] ) ]_vars

\* C12 as stated: transferRejected on an Initiated entry sets Cancelled when
\* the caller is the sender and Rejected when the caller is the receiver.
C12_RejectedOrCancelledByActor ==
    [][ ( /\ call'.fn = "transferRejected"
          /\ IsInitiated(transferKV, <<call'.args[1], call'.args[2], call'.args[3]>>) )
        => LET status == transferKV'[<<call'.args[1], call'.args[2], call'.args[3]>>].status
           IN  /\ call'.caller = call'.args[2] => status = statusCancelled
               /\ call'.caller = call'.args[3] => status = statusRejected ]_vars

\* C12 amended: transferRejected on an Initiated entry sets Rejected when the
\* caller is the receiver (also when sender and receiver are the same
\* organisation) and Cancelled when the caller is the sender and not the
\* receiver.
C12_ReceiverTestedFirst ==
    [][ ( /\ call'.fn = "transferRejected"
          /\ IsInitiated(transferKV, <<call'.args[1], call'.args[2], call'.args[3]>>) )
        => LET status == transferKV'[<<call'.args[1], call'.args[2], call'.args[3]>>].status
           IN  /\ call'.caller = call'.args[3] => (resp'.status = 200 /\ status = statusRejected)
               /\ (call'.caller = call'.args[2] /\ call'.args[2] # call'.args[3])
                     => (resp'.status = 200 /\ status = statusCancelled) ]_vars

\* C12 witness: an organisation refused the request it had sent to itself
C12_Witness ==
    /\ call.fn = "transferRejected"
    /\ resp.status = 200
    /\ call.caller = call.args[2]
    /\ call.args[2] = call.args[3]
    /\ transferKV[<<call.args[1], call.args[2], call.args[3]>>].status = statusRejected

\* the caller the handler of the last invocation lets through
Authorized(c) ==
    CASE c.fn \in {"sendRequest", "editRequest"} -> c.caller = c.args[2]
      [] c.fn = "transferAccepted" -> c.caller = c.args[3]
      [] c.fn = "transferRejected" -> c.caller \in {c.args[2], c.args[3]}
      [] OTHER -> TRUE

\* C13: editRequest, transferAccepted and transferRejected on a triple without
\* an entry or with a terminal entry fail (for a caller who passes the
\* privilege test: as not initiated) and leave the entry as it is; an entry
\* gets a terminal status only in a step that found it Initiated.
C13_TerminalOnlyFromInitiated ==
    [][ /\ ( /\ call'.fn \in {"editRequest", "transferAccepted", "transferRejected"}
             /\ ~IsInitiated(transferKV, <<call'.args[1], call'.args[2], call'.args[3]>>) )
           => ( /\ resp'.status # 200
                /\ Authorized(call') => resp' = Error("ownership transfer wasn't initiated")
                /\ UNCHANGED <<transferKV, keyHistory>> )
        /\ \A k \in DOMAIN transferKV' :
             ( /\ transferKV'[k].status \in TerminalStatuses
               /\ (k \notin DOMAIN transferKV \/ transferKV[k] # transferKV'[k]) )
             => IsInitiated(transferKV, k) ]_vars

\* C13 witness: the receiver tried to accept a request it had rejected
C13_Witness ==
    /\ call.fn = "transferAccepted"
    /\ call.caller = call.args[3]
    /\ resp = Error("ownership transfer wasn't initiated")
    /\ <<call.args[1], call.args[2], call.args[3]>> \in DOMAIN transferKV
    /\ transferKV[<<call.args[1], call.args[2], call.args[3]>>].status = statusRejected

\* C14: a successful transferAccepted(P, S, R) adds exactly one event to the
\* events emitted so far, with payload {product P, old owner R, new owner S}.
C14_OneEventPerAcceptance ==
    [][ (call'.fn = "transferAccepted" /\ resp'.status = 200) =>
          /\ Len(events') = Len(events) + 1
          /\ SubSeq(events', 1, Len(events)) = events
          /\ events'[Len(events')].payload =
                [product_key |-> call'.args[1], old_owner |-> call'.args[3],
                 new_owner |-> call'.args[2]] ]_vars

\* C14 witness: the one event of an acceptance of b's request by a
C14_Witness ==
    /\ call.fn = "transferAccepted"
    /\ resp.status = 200
    /\ Len(events) = 1
    /\ events[1].payload.old_owner = "a"
    /\ events[1].payload.new_owner = "b"

\* C15: the events emitted change in a step only by a successful
\* transferAccepted; every other invocation, and every failing one, leaves
\* them as they are, so their number is the number of successful acceptances.
C15_EventsOnlyFromAcceptance ==
    [][ IF call'.fn = "transferAccepted" /\ resp'.status = 200
          THEN Len(events') = Len(events) + 1
          ELSE events' = events ]_vars

\* C15 witness: a request was cancelled by its sender and nothing was emitted
C15_Witness ==
    /\ call.fn = "transferRejected"
    /\ resp.status = 200
    /\ transferKV[<<call.args[1], call.args[2], call.args[3]>>].status = statusCancelled
    /\ events = <<>>

\* C16: an invocation answered with a failure leaves products, index entries,
\* transfer requests, their history and the events as they were; a
\* transferAccepted that fails after it set the status leaves the request
\* Initiated.
C16_FailureWritesNothing ==
    [][ resp'.status # 200 =>
          /\ UNCHANGED ledgerVars
          /\ ( /\ call'.fn = "transferAccepted"
               /\ IsInitiated(transferKV, <<call'.args[1], call'.args[2], call'.args[3]>>) )
             => IsInitiated(transferKV', <<call'.args[1], call'.args[2], call'.args[3]>>) ]_vars

\* C16 witness: an acceptance that passed every test failed to emit its event
C16_Witness ==
    /\ call.fn = "transferAccepted"
    /\ call.args[6] = "event"
    /\ resp = Error("set event failed")
    /\ IsInitiated(transferKV, <<call.args[1], call.args[2], call.args[3]>>)
    /\ events = <<>>

\* the Initiated elements query() returns for a triple
InitiatedEntries(kv, key) ==
    LET entries == queryEntries(kv)
    IN  {i \in 1..Len(entries) :
            /\ entries[i].key = TransferDetailsEntry(key, kv[key]).key
            /\ entries[i].value.status = statusInitiated}

C19_InactiveIsTerminal ==
    [][ /\ \A n \in DOMAIN productKV :
             productKV[n].state = stateInactive
                => (n \in DOMAIN productKV' /\ productKV'[n].state = stateInactive)
        /\ \A n \in DOMAIN plainKV :
             plainKV[n].state = stateInactive
                => (n \in DOMAIN plainKV' /\ plainKV'[n].state = stateInactive) ]_vars

\* C20: sendRequest by the sender on a triple whose entry is Accepted, Rejected
\* or Cancelled, the verifier confirming, succeeds and overwrites the entry
\* with status Initiated and the new message; history(P) still returns the
\* terminal value.
C20_TerminalEntryReopened ==
    [][ ( /\ call'.fn = "sendRequest"
          /\ call'.caller = call'.args[2]
          /\ <<call'.args[1], call'.args[2], call'.args[3]>> \in DOMAIN transferKV
          /\ transferKV[<<call'.args[1], call'.args[2], call'.args[3]>>].status
                \in TerminalStatuses
          /\ VerifierConfirms(call'.args[1], call'.args[3], call'.args[6]) )
        => LET key == <<call'.args[1], call'.args[2], call'.args[3]>>
               h == historyEntries(transferKV', keyHistory', call'.args[1])
           IN  /\ resp'.status = 200
               /\ DOMAIN transferKV' = DOMAIN transferKV
               /\ transferKV'[key].status = statusInitiated
               /\ transferKV'[key].message = call'.args[4]
               /\ \E i \in 1..Len(h) : h[i] = TransferDetailsEntry(key, transferKV[key]) ]_vars

\* C20 witness: a rejected request was sent again; history returns the
\* rejection between the two Initiated values
C20_Witness ==
    /\ call.fn = "sendRequest"
    /\ resp.status = 200
    /\ LET h == historyEntries(transferKV, keyHistory, call.args[1])
       IN  /\ Len(h) = 3
           /\ h[1].value.status = statusInitiated
           /\ h[2].value.status = statusRejected
           /\ h[3].value.status = statusInitiated
           /\ h[3].value.message = call.args[4]

\* C17: a transaction of transferAccepted(P, S, R) is produced only by a
\* simulation that read P with owner R, and a request becomes Accepted only by
\* the commit of such a transaction; the commit itself does not read the
\* catalogue again (the witness: it is applied when R has lost P meanwhile).
C17_VerifiedAtSimulationOnly ==
    [][ /\ \A tx \in pending' \ pending :
             /\ call'.fn = "transferAccepted"
             /\ Owns(tx.key[3], tx.key[1])
             /\ IsInitiated(transferKV, tx.key)
        /\ \A k \in DOMAIN transferKV' :
             ( /\ transferKV'[k].status = statusAccepted
               /\ (k \notin DOMAIN transferKV \/ transferKV[k].status # statusAccepted) )
             => ( /\ call'.fn = "commit"
                  /\ \E tx \in pending \ pending' : tx.key = k
                  /\ UNCHANGED catalogVars ) ]_vars

\* C17 witness: the commit made the request Accepted while the product is
\* owned by another organisation than the receiver
C17_Witness ==
    /\ call.fn = "commit"
    /\ resp.status = 200
    /\ call.args[2] # call.args[3]
    /\ transferKV[call.args].status = statusAccepted
    /\ ProductExists(call.args[1])
    /\ ~Owns(call.args[3], call.args[1])

\* C21: a successful editRequest(P, S, R, newMessage) replaces the message and
\* the timestamp of entry (P, S, R) and nothing else: its status stays
\* Initiated, the other entries, the products, the index and the events stay
\* as they were.
C21_EditChangesMessageOnly ==
    [][ (call'.fn = "editRequest" /\ resp'.status = 200) =>
          LET key == <<call'.args[1], call'.args[2], call'.args[3]>>
          IN  /\ key \in DOMAIN transferKV
              /\ transferKV' = [transferKV EXCEPT ![key] =
                                   [status |-> statusInitiated,
                                    message |-> call'.args[4],
                                    timestamp |-> call'.args[5]]]
              /\ transferKV[key].status = statusInitiated
              /\ UNCHANGED <<catalogVars, events>> ]_vars

\* C21 witness: one of two stored requests was edited
C21_Witness ==
    /\ call.fn = "editRequest"
    /\ resp.status = 200
    /\ Cardinality(DOMAIN transferKV) = 2
    /\ transferKV[<<call.args[1], call.args[2], call.args[3]>>].message = call.args[4]
    /\ transferKV[<<call.args[1], call.args[2], call.args[3]>>].timestamp = call.args[5]

KnownStates == {stateRegistered, stateActive, stateDecisionMaking, stateInactive}

\* C22: every stored product has one of the four states, and initProduct and
\* updateProduct with another state value fail and write nothing.
C22_StoredStateIsKnown ==
    [][ /\ \A n \in DOMAIN plainKV' : plainKV'[n].state \in KnownStates
        /\ \A n \in DOMAIN productKV' : productKV'[n].state \in KnownStates
        /\ ( /\ call'.fn \in {"initProduct", "updateProduct"}
             /\ call'.args[3] \notin KnownStates )
           => (resp'.status # 200 /\ UNCHANGED catalogVars) ]_vars

\* C22 witness: initProduct with a value above the four states was refused
\* and stored nothing
C22_Witness ==
    /\ call.fn = "initProduct"
    /\ call.args[3] = stateInactive + 1
    /\ resp = Error("Not legal product state")
    /\ cc = "ProductChaincode"
    /\ productKV = EmptyKV

\* C23: transferProduct(name, newOwner) on a stored product succeeds whatever
\* its state and replaces its owner only; without such a product it fails and
\* changes nothing.
C23_TransferChangesOwnerOnly ==
    [][ call'.fn = "transferProduct" =>
          LET name == call'.args[1]
          IN  IF name \in DOMAIN plainKV
                THEN /\ resp'.status = 200
                     /\ plainKV' = [plainKV EXCEPT ![name].owner = ToLower(call'.args[2])]
                     /\ UNCHANGED <<productKV, stateIdx>>
                ELSE /\ resp'.status # 200
                     /\ UNCHANGED catalogVars ]_vars

\* C23 witness: an Inactive product got another owner
C23_Witness ==
    /\ call.fn = "transferProduct"
    /\ resp.status = 200
    /\ plainKV[call.args[1]].state = stateInactive
    /\ plainKV[call.args[1]].owner = "orgc"
    /\ call.args[2] = "OrgC"

\* C24: query() answers with one element per stored entry, whoever calls and
\* whatever the status; the element carries the triple of the entry's key and
\* the stored value.
C24_QueryReturnsEveryEntry ==
    call.fn = "query" =>
        /\ resp.status = 200
        /\ Len(resp.payload) = Cardinality(DOMAIN transferKV)
        /\ \A k \in DOMAIN transferKV :
             \E i \in 1..Len(resp.payload) :
                /\ resp.payload[i].key = [productKey |-> k[1], requestSender |-> k[2],
                                          requestReceiver |-> k[3]]
                /\ resp.payload[i].value = transferKV[k]

\* C24 witness: an organisation that is party to neither request got both
C24_Witness ==
    /\ call.fn = "query"
    /\ call.caller = "OrgC"
    /\ Len(resp.payload) = 2
    /\ resp.payload[1].key.requestSender # resp.payload[2].key.requestSender

\* the values of the elements of a history answer that belong to a key
ValuesOfKey(h, k) ==
    LET ofKey(e) == e.key = [productKey |-> k[1], requestSender |-> k[2],
                             requestReceiver |-> k[3]]
        sel == SelectSeq(h, ofKey)
    IN  [i \in 1..Len(sel) |-> sel[i].value]

\* C25: history(P) answers with the committed values of every stored triple
\* of product P, and of no other triple: per triple one element for each
\* committed write, in commit order, the elements of one triple being
\* adjacent; every committed write adds one element.
C25_HistoryPerTriple ==
    [][ /\ call'.fn = "history" =>
             LET h == resp'.payload
             IN  /\ resp'.status = 200
                 /\ \A i \in 1..Len(h) :
                      /\ h[i].key.productKey = call'.args[1]
                      /\ <<h[i].key.productKey, h[i].key.requestSender,
                           h[i].key.requestReceiver>> \in DOMAIN transferKV
                 /\ \A k \in DOMAIN transferKV :
                      k[1] = call'.args[1] => ValuesOfKey(h, k) = keyHistory[k]
                 /\ \A i, j, l \in 1..Len(h) :
                      (i < j /\ j < l /\ h[i].key = h[l].key) => h[j].key = h[i].key
        /\ ( /\ call'.fn \in {"sendRequest", "editRequest", "transferAccepted",
                              "transferRejected"}
             /\ resp'.status = 200 )
           => LET k == <<call'.args[1], call'.args[2], call'.args[3]>>
              IN  /\ keyHistory'[k] = (IF k \in DOMAIN keyHistory THEN keyHistory[k] ELSE <<>>)
                                         \o <<transferKV'[k]>>
                  /\ \A o \in DOMAIN keyHistory' \ {k} :
                       o \in DOMAIN keyHistory /\ keyHistory'[o] = keyHistory[o] ]_vars

\* C25 witness: history answered with a request and its edit, in that order
C25_Witness ==
    /\ call.fn = "history"
    /\ Len(resp.payload) = 2
    /\ resp.payload[1].key = resp.payload[2].key
    /\ resp.payload[1].value.timestamp < resp.payload[2].value.timestamp
    /\ resp.payload[1].value.message # resp.payload[2].value.message

\* C27: sendRequest, editRequest, transferAccepted and transferRejected answer
\* with status 403 exactly when the caller fails the privilege test.
C27_PrivilegeFailureIs403 ==
    [][ call'.fn \in {"sendRequest", "editRequest", "transferAccepted", "transferRejected"}
          => (resp'.status = 403 <=> ~Authorized(call')) ]_vars

\* C27 witness: the sender of a stored request tried to accept it
C27_Witness ==
    /\ call.fn = "transferAccepted"
    /\ call.caller = call.args[2]
    /\ call.caller # call.args[3]
    /\ resp.status = 403
    /\ IsInitiated(transferKV, <<call.args[1], call.args[2], call.args[3]>>)

\* the values committed to the key under which a revision stores a product
WritesOf(name) ==
    LET written == GetHistoryForKey(catalogHistory,
                       IF cc = "ProductChaincode"
                         THEN CreateCompositeKey(productIndex, name)
                         ELSE PlainKey(name))
    IN  [i \in 1..Len(written) |-> written[i].value]

\* C26: getHistoryForProduct(name) answers with one element per committed
\* write of the product, in commit order; for a stored product the answer is
\* not empty and its last element carries the value readProduct returns.
C26_HistoryOfProduct ==
    (call.fn = "getHistoryForProduct" /\ cc = "ProductChaincode") =>
        LET name == call.args[1]
            h == resp.payload
        IN  /\ resp.status = 200
            /\ [i \in 1..Len(h) |-> h[i].value] = WritesOf(name)
            /\ name \in DOMAIN productKV =>
                 /\ Len(h) > 0
                 /\ h[Len(h)].value = Product_readProductResponse(productKV, name).payload.value

\* C29: readProduct(name) answers with the stored value of the product, with
\* status 404 when there is none, and writes nothing.
C29_ReadFoundOr404 ==
    [][ (call'.fn = "readProduct" /\ cc = "ProductChaincode") =>
          LET name == call'.args[1]
          IN  /\ UNCHANGED ledgerVars
              /\ IF name \in DOMAIN productKV
                   THEN /\ resp'.status = 200
                        /\ resp'.payload = [key |-> [name |-> name],
                                            value |-> productKV[name]]
                   ELSE resp'.status = 404 ]_vars

\* C29 as the revisions have it: the answer for a product that is not stored
\* is the one of shim.Error, status 500, with a message saying so.
C29_ReadFoundOrError ==
    [][ (call'.fn = "readProduct" /\ cc = "ProductChaincode") =>
          LET name == call'.args[1]
          IN  /\ UNCHANGED ledgerVars
              /\ IF name \in DOMAIN productKV
                   THEN /\ resp'.status = 200
                        /\ resp'.payload = [key |-> [name |-> name],
                                            value |-> productKV[name]]
                   ELSE /\ resp'.status = 500
                        /\ resp'.message = "product doesn't exist" ]_vars

\* C29 witness: a product that is not stored was read
C29_Witness ==
    /\ call.fn = "readProduct"
    /\ call.args[1] \notin DOMAIN productKV
    /\ resp = Error("product doesn't exist")

RuleViolated(c) ==
    LET key == <<c.args[1], c.args[2], c.args[3]>>
    IN  /\ Authorized(c)
        /\ \/ /\ c.fn = "sendRequest"
              /\ \/ IsInitiated(transferKV, key)
                 \/ ~VerifierConfirms(c.args[1], c.args[3], c.args[6])
           \/ /\ c.fn \in {"editRequest", "transferRejected"}
              /\ ~IsInitiated(transferKV, key)
           \/ /\ c.fn = "transferAccepted"
              /\ \/ ~IsInitiated(transferKV, key)
                 \/ ~VerifierConfirms(c.args[1], c.args[3], c.args[5])

NegotiationHandlers == {"sendRequest", "editRequest", "transferAccepted", "transferRejected"}

AcceptedFor(kv, p, old, new) ==
    \E key \in DOMAIN kv :
        /\ key[1] = p
        /\ ToLower(key[2]) = new
        /\ ToLower(key[3]) = old
        /\ kv[key].status = statusAccepted

\* C31: the owner of a stored product changes from R to S only in the presence
\* of an Accepted request (P, S, R); updateProduct, updateOwner and
\* transferProduct invoked without one leave the owner as it is.
C31_OwnerChangesOnlyByAcceptance ==
    [][ /\ \A p \in DOMAIN plainKV \cap DOMAIN plainKV' :
             plainKV'[p].owner # plainKV[p].owner =>
                 AcceptedFor(transferKV', p, plainKV[p].owner, plainKV'[p].owner)
        /\ \A p \in DOMAIN productKV \cap DOMAIN productKV' :
             productKV'[p].owner # productKV[p].owner =>
                 AcceptedFor(transferKV', p, productKV[p].owner, productKV'[p].owner) ]_vars

\* C33: updateOwner(name, oldOwner, newOwner, ts) on a stored product whose
\* owner is oldOwner succeeds and replaces owner and lastUpdated only; with
\* another owner stored, or no product, it fails and changes nothing.
C33_UpdateOwnerOfStoredProduct ==
    [][ (call'.fn = "updateOwner" /\ cc = "ProductChaincode") =>
          LET name == call'.args[1]
          IN  IF name \in DOMAIN productKV /\ productKV[name].owner = call'.args[2]
                THEN /\ resp'.status = 200
                     /\ productKV' = [productKV EXCEPT ![name].owner = call'.args[3],
                                                       ![name].lastUpdated = call'.args[4]]
                     /\ UNCHANGED <<plainKV, stateIdx>>
                ELSE /\ resp'.status # 200
                     /\ UNCHANGED catalogVars ]_vars

\* C34: transferProductsBasedOnState(S, newOwner) gives newOwner to the
\* products whose state is S and to no other product, and reports their
\* number.
C34_TransfersProductsInState ==
    [][ call'.fn = "transferProductsBasedOnState" =>
          LET inState == {n \in DOMAIN plainKV : plainKV[n].state = call'.args[1]}
          IN  /\ resp'.status = 200
              /\ resp'.payload.transferred = Cardinality(inState)
              /\ plainKV' = [n \in DOMAIN plainKV |->
                               IF n \in inState
                                 THEN [plainKV[n] EXCEPT !.owner = ToLower(call'.args[2])]
                                 ELSE plainKV[n]] ]_vars

\* C35: a stored product that initProduct registered with owner argument o
\* passes the ownership verification for o, whatever the letters of o.
C35_StoredOwnerPassesVerification ==
    \A n \in RefNames, o \in Orgs :
        RegisteredWith(n, o) => checkProductExistenceAndOwnership(n, o, "ok") = ""

C37_SuccessMeansIndexed ==
    [][ ( /\ call'.fn \in {"initProduct", "updateProduct"}
          /\ cc = "ProductChaincode"
          /\ resp'.status = 200 )
        => LET name == call'.args[1]
           IN  /\ name \in DOMAIN productKV'
               /\ <<productKV'[name].state, name>> \in stateIdx' ]_vars

\* C38: transferRejected by the sender or by the receiver of an Initiated
\* request succeeds and gives the request a terminal status, whoever owns the
\* product by then.
C38_InitiatedCanBeClosed ==
    [][ ( /\ call'.fn = "transferRejected"
          /\ call'.caller \in {call'.args[2], call'.args[3]}
          /\ IsInitiated(transferKV, <<call'.args[1], call'.args[2], call'.args[3]>>) )
        => ( /\ resp'.status = 200
             /\ transferKV'[<<call'.args[1], call'.args[2], call'.args[3]>>].status
                   \in {statusRejected, statusCancelled} ) ]_vars

\* C38 witness: a request was closed after its receiver had lost the product
C38_Witness ==
    /\ call.fn = "transferRejected"
    /\ resp.status = 200
    /\ ProductExists(call.args[1])
    /\ ~Owns(ToLower(call.args[3]), call.args[1])
    /\ transferKV[<<call.args[1], call.args[2], call.args[3]>>].status
          \in {statusRejected, statusCancelled}

\* C32: two requests (P, S1, R) and (P, S2, R) of different senders, neither
\* of them R, are not both Accepted, unless the catalogue committed a write to P after its
\* registration (without one the ownership of P has not returned to R).
C32_OneAcceptancePerOwner ==
    \A k1, k2 \in DOMAIN transferKV :
        ( /\ k1[1] = k2[1]
          /\ k1[3] = k2[3]
          /\ k1[2] # k2[2]
          /\ k1[3] \notin {k1[2], k2[2]}
          /\ transferKV[k1].status = statusAccepted
          /\ transferKV[k2].status = statusAccepted )
        => Len(GetHistoryForKey(catalogHistory,
                                CreateCompositeKey(productIndex, k1[1]))) > 1

\* C39: two executions of one invocation against the same value of the
\* request produce the same written value and the same event.
C39_SameInvocationSameWrites ==
    \A t1, t2 \in pending :
        (t1.key = t2.key /\ t1.readVersion = t2.readVersion)
            => (t1.value = t2.value /\ t1.event = t2.event)

====
